---------------------------- MODULE Spec2Model ----------------------------
(***************************************************************************)
(* slack-to-md: a Slack export archive is read (users, channels, one day   *)
(* file per channel and date), each channel's messages are sorted and      *)
(* assembled into threads, and each channel is rendered as one Markdown    *)
(* document.                                                               *)
(*                                                                         *)
(* Conventions of the model                                                *)
(*   - a Python str is a sequence of one-character strings;                *)
(*   - a Python dict (a JSON object, the user table, the parents registry) *)
(*     is a set of <<key, value>> pairs with distinct keys;                *)
(*   - a Python list is a sequence;                                        *)
(*   - a Message object is a cell of `heap`; lists of messages hold the    *)
(*     cells' indexes, so that appending to parent.replies is seen through *)
(*     every reference to the parent, as in Python.                        *)
(***************************************************************************)
EXTENDS Integers, Sequences, FiniteSets, TLC

VARIABLES
    zf,            \* the opened archive: its members in namelist() order
    pc,            \* position of main()
    users,         \* dict uid -> User, shared by all channels of the run
    all_channels,  \* list of Channel returned by load_channels
    ci,            \* index in `selected` of the channel being processed
    date_files,    \* load_channel_messages: the matched day files, sorted
    ri,            \* load_channel_messages: number of records read so far
    heap,          \* the Message objects created by the current load
    all_messages,  \* load_channel_messages: list of Message (heap indexes)
    top_level,     \* load_channel_messages: the returned list
    parents,       \* load_channel_messages: dict ts -> Message
    lines,         \* format_channel: the lines of the document, with origin
    txt,           \* argument of a direct call of a formatter function
    res,           \* result of that call
    fpc            \* which function was called on txt: "idle", then "fmt", "mrkdwn",
                   \* "time", "date", or "raised" when the call raised

vars == <<zf, pc, users, all_channels, ci, date_files, ri, heap,
          all_messages, top_level, parents, lines, txt, res, fpc>>

loadVars == <<date_files, ri, heap, all_messages, top_level, parents>>
textVars == <<txt, res, fpc>>

(***************************************************************************)
(* Bounds of the model.                                                    *)
(***************************************************************************)
\* messages of the channel whose thread structure is explored
MaxMsgs == 3
\* records of the two channels whose inline profiles are explored
MaxRecs == 3
\* pieces of a text given to _convert_slack_formatting
MaxPieces == 5
\* characters of the variable part of a link token
MaxBody == 4
\* user records and channel records of the archive whose fields are explored
MaxMeta == 1
\* decimal places of a timestamp kept by the model's float()
FracDigits == 6

(***************************************************************************)
(* Strings, lists and dicts.                                               *)
(***************************************************************************)
RECURSIVE Concat(_)
\* "".join(parts)
Concat(parts) ==
    IF parts = <<>> THEN <<>> ELSE Head(parts) \o Concat(Tail(parts))

\* s[i:j] with 0-based Python bounds already clipped to 0..len(s)
Slice(s, i, j) == SubSeq(s, i + 1, j)

\* s.startswith(p)
StartsWith(s, p) == Len(s) >= Len(p) /\ SubSeq(s, 1, Len(p)) = p

\* whether p occurs in s at 1-based position i
MatchAt(s, p, i) == i >= 1 /\ i + Len(p) - 1 <= Len(s) /\ SubSeq(s, i, i + Len(p) - 1) = p

\* s.find(p, start) as a 1-based position, 0 when not found (start is 1-based)
Find(s, p, start) ==
    LET hits == {i \in start..Len(s) : MatchAt(s, p, i)}
    IN  IF hits = {} THEN 0 ELSE CHOOSE i \in hits : \A j \in hits : i <= j

\* p in s
Contains(s, p) == Find(s, p, 1) # 0

\* k in d
Has(d, k) == \E p \in d : p[1] = k

\* d.get(k, dflt)
Get(d, k, dflt) == IF Has(d, k) THEN (CHOOSE p \in d : p[1] = k)[2] ELSE dflt

\* d[k] = v
Put(d, k, v) == {p \in d : p[1] # k} \cup {<<k, v>>}

Keys(d) == {p[1] : p \in d}

Range(s) == {s[i] : i \in 1..Len(s)}

(***************************************************************************)
(* float(): the decimal literals  digits [ "." digits* ]  and  "." digits. *)
(* Every other string of the model's alphabet raises ValueError.  The      *)
(* value is kept as whole seconds and 10^-FracDigits seconds.              *)
(***************************************************************************)
Digits == {"0", "1", "2", "3", "4", "5", "6", "7", "8", "9"}

DigitVal(c) ==
    CASE c = "0" -> 0 [] c = "1" -> 1 [] c = "2" -> 2 [] c = "3" -> 3
      [] c = "4" -> 4 [] c = "5" -> 5 [] c = "6" -> 6 [] c = "7" -> 7
      [] c = "8" -> 8 [] c = "9" -> 9

RECURSIVE Pow10(_)
Pow10(n) == IF n = 0 THEN 1 ELSE 10 * Pow10(n - 1)

RECURSIVE DigitsVal(_)
\* the number written by a sequence of digits ("" is 0)
DigitsVal(s) ==
    IF s = <<>> THEN 0
    ELSE 10 * DigitsVal(SubSeq(s, 1, Len(s) - 1)) + DigitVal(s[Len(s)])

\* whether float(s) returns (False: it raises ValueError)
FloatOk(s) ==
    LET dot == Find(s, <<".">>, 1)
        ip  == IF dot = 0 THEN s ELSE SubSeq(s, 1, dot - 1)
        fp  == IF dot = 0 THEN <<>> ELSE SubSeq(s, dot + 1, Len(s))
    IN  /\ Range(ip) \subseteq Digits
        /\ Range(fp) \subseteq Digits
        /\ Len(ip) + Len(fp) >= 1

\* float(s), for FloatOk(s): <<whole seconds, 10^-FracDigits seconds>>
FloatVal(s) ==
    LET dot == Find(s, <<".">>, 1)
        ip  == IF dot = 0 THEN s ELSE SubSeq(s, 1, dot - 1)
        fp  == IF dot = 0 THEN <<>> ELSE SubSeq(s, dot + 1, Len(s))
        fk  == IF Len(fp) >= FracDigits THEN SubSeq(fp, 1, FracDigits) ELSE fp
    IN  <<DigitsVal(ip), DigitsVal(fk) * Pow10(FracDigits - Len(fk))>>

\* a <= b for two floats
FloatLE(a, b) == a[1] < b[1] \/ (a[1] = b[1] /\ a[2] <= b[2])

(***************************************************************************)
(* models.py                                                               *)
(***************************************************************************)
User(id, name, display_name, real_name) ==
    [id |-> id, name |-> name, display_name |-> display_name, real_name |-> real_name]

\* User.label
label(u) ==
    IF u.display_name # <<>> THEN u.display_name
    ELSE IF u.real_name # <<>> THEN u.real_name
    ELSE u.name

Channel(id, name, topic, purpose) ==
    [id |-> id, name |-> name, topic |-> topic, purpose |-> purpose]

Attachment(title, fallback, text, from_url) ==
    [title |-> title, fallback |-> fallback, text |-> text, from_url |-> from_url]

File(name, url_private, permalink) ==
    [name |-> name, url_private |-> url_private, permalink |-> permalink]

\* a new Message: replies is the empty default list
Message(user, text, ts, thread_ts, attachments, files, subtype) ==
    [user |-> user, text |-> text, ts |-> ts, thread_ts |-> thread_ts,
     replies |-> <<>>, attachments |-> attachments, files |-> files,
     subtype |-> subtype]

(***************************************************************************)
(* parser.py                                                               *)
(***************************************************************************)
\* the archive members a loader looks at, in namelist() order
MembersOf(kind) == SelectSeq(zf, LAMBDA m : m.kind = kind)

\* load_users: u["id"] raises KeyError when a record has no id
load_users_raises(data) == \E i \in 1..Len(data) : ~Has(data[i], "id")

RECURSIVE load_users_fold(_, _)
\* load_users: the loop over the records of users.json
load_users_fold(data, acc) ==
    IF data = <<>> THEN acc
    ELSE LET u == Head(data)
             profile == Get(u, "profile", {})
         IN  load_users_fold(Tail(data),
                 Put(acc, Get(u, "id", <<>>),
                     User(Get(u, "id", <<>>), Get(u, "name", <<>>),
                          Get(profile, "display_name", <<>>),
                          Get(u, "real_name", <<>>))))

\* load_channels: c["id"] and c["name"] raise KeyError when missing
load_channels_raises(data) ==
    \E i \in 1..Len(data) : ~Has(data[i], "id") \/ ~Has(data[i], "name")

\* load_channels: the list built from the records of channels.json
load_channels_list(data) ==
    [i \in 1..Len(data) |->
        Channel(Get(data[i], "id", <<>>), Get(data[i], "name", <<>>),
                Get(Get(data[i], "topic", {}), "value", <<>>),
                Get(Get(data[i], "purpose", {}), "value", <<>>))]

\* _parse_message
parse_message(raw) ==
    LET atts == Get(raw, "attachments", <<>>)
        fls  == Get(raw, "files", <<>>)
    IN  Message(Get(raw, "user", <<>>), Get(raw, "text", <<>>),
                Get(raw, "ts", <<>>), Get(raw, "thread_ts", <<>>),
                [i \in 1..Len(atts) |->
                    Attachment(Get(atts[i], "title", <<>>), Get(atts[i], "fallback", <<>>),
                               Get(atts[i], "text", <<>>), Get(atts[i], "from_url", <<>>))],
                [i \in 1..Len(fls) |->
                    File(Get(fls[i], "name", <<>>), Get(fls[i], "url_private", <<>>),
                         Get(fls[i], "permalink", <<>>))],
                Get(raw, "subtype", <<>>))

\* the backfill without the test of line 109 that the id is new
backfill_overwrites(tbl, raw) ==
    LET uid     == Get(raw, "user", <<>>)
        profile == Get(raw, "user_profile", {})
    IN  IF uid # <<>> /\ profile # {}
        THEN Put(tbl, uid, User(uid, Get(profile, "name", <<>>),
                                Get(profile, "display_name", <<>>),
                                Get(profile, "real_name", <<>>)))
        ELSE tbl

\* load_channel_messages: the user table after one record (the backfill)
backfill(tbl, raw) ==
    LET uid     == Get(raw, "user", <<>>)
        profile == Get(raw, "user_profile", {})
    IN  IF uid # <<>> /\ ~Has(tbl, uid) /\ profile # {}
        THEN Put(tbl, uid, User(uid, Get(profile, "name", <<>>),
                                Get(profile, "display_name", <<>>),
                                Get(profile, "real_name", <<>>)))
        ELSE tbl

RECURSIVE StableSort(_)
\* list.sort(key=...) on a list of [key, item] pairs: a stable sort by key
\* (a key is a float; the date of a file name is the float <<date, 0>>)
StableSort(s) ==
    IF s = <<>> THEN <<>>
    ELSE LET init == StableSort(SubSeq(s, 1, Len(s) - 1))
             x    == s[Len(s)]
             k    == Cardinality({i \in 1..Len(init) : FloatLE(init[i].key, x.key)})
             \* init is sorted: the elements with a key <= x.key are its first k
         IN  SubSeq(init, 1, k) \o <<x>> \o SubSeq(init, k + 1, Len(init))

Items(s) == [i \in 1..Len(s) |-> s[i].item]

\* lines 93-99: the day files of a channel, sorted by the date of their name
matched_files(channel_name) ==
    LET found == SelectSeq(zf, LAMBDA m : m.kind = "day" /\ m.channel = channel_name)
    IN  Items(StableSort([i \in 1..Len(found) |-> [key |-> <<found[i].date, 0>>, item |-> found[i]]]))

\* the sort key of line 120, for a ts float() accepts
sort_key(m) == IF m.ts # <<>> THEN FloatVal(m.ts) ELSE <<0, 0>>

\* line 120 raises ValueError: some non-empty ts is no number
sort_raises(h, ids) ==
    \E i \in 1..Len(ids) : h[ids[i]].ts # <<>> /\ ~FloatOk(h[ids[i]].ts)

\* line 120 left out: the list stays in reading order
sorted_messages_unsorted(h, ids) == ids

\* line 120
sorted_messages(h, ids) ==
    Items(StableSort([i \in 1..Len(ids) |-> [key |-> sort_key(h[ids[i]]), item |-> ids[i]]]))

\* line 127
is_reply(m) == m.thread_ts # <<>> /\ m.thread_ts # m.ts

\* lines 126-137 with the orphan branch left out: an orphan reply is dropped
assemble_one_drops_orphan(st, id) ==
    LET msg == st.heap[id]
    IN  IF ~is_reply(msg)
        THEN [st EXCEPT !.top_level = Append(@, id),
                        !.parents = Put(@, msg.ts, id)]
        ELSE IF Has(st.parents, msg.thread_ts)
        THEN [st EXCEPT !.heap[Get(st.parents, msg.thread_ts, 0)].replies = Append(@, id)]
        ELSE st

\* lines 126-137 with every message entered in the registry, not only the
\* non-replies of line 130
assemble_one_registers_replies(st, id) ==
    LET msg == st.heap[id]
    IN  IF ~is_reply(msg)
        THEN [st EXCEPT !.top_level = Append(@, id),
                        !.parents = Put(@, msg.ts, id)]
        ELSE IF Has(st.parents, msg.thread_ts)
        THEN [st EXCEPT !.heap[Get(st.parents, msg.thread_ts, 0)].replies = Append(@, id),
                        !.parents = Put(@, msg.ts, id)]
        ELSE [st EXCEPT !.top_level = Append(@, id),
                        !.parents = Put(@, msg.ts, id)]

\* lines 126-137 with line 130 keeping the first message entered for a ts
assemble_one_keeps_first_parent(st, id) ==
    LET msg == st.heap[id]
    IN  IF ~is_reply(msg)
        THEN [st EXCEPT !.top_level = Append(@, id),
                        !.parents = IF Has(@, msg.ts) THEN @ ELSE Put(@, msg.ts, id)]
        ELSE IF Has(st.parents, msg.thread_ts)
        THEN [st EXCEPT !.heap[Get(st.parents, msg.thread_ts, 0)].replies = Append(@, id)]
        ELSE [st EXCEPT !.top_level = Append(@, id)]

\* lines 126-137 with a nested reply also appended to the result
assemble_one_keeps_reply_at_top(st, id) ==
    LET msg == st.heap[id]
    IN  IF ~is_reply(msg)
        THEN [st EXCEPT !.top_level = Append(@, id),
                        !.parents = Put(@, msg.ts, id)]
        ELSE IF Has(st.parents, msg.thread_ts)
        THEN [st EXCEPT !.heap[Get(st.parents, msg.thread_ts, 0)].replies = Append(@, id),
                        !.top_level = Append(@, id)]
        ELSE [st EXCEPT !.top_level = Append(@, id)]

\* one iteration of the loop of lines 126-137 on message `id`
assemble_one(st, id) ==
    LET msg == st.heap[id]
    IN  IF ~is_reply(msg)
        THEN [st EXCEPT !.top_level = Append(@, id),
                        !.parents = Put(@, msg.ts, id)]
        ELSE IF Has(st.parents, msg.thread_ts)
        THEN [st EXCEPT !.heap[Get(st.parents, msg.thread_ts, 0)].replies = Append(@, id)]
        ELSE [st EXCEPT !.top_level = Append(@, id)]

RECURSIVE assemble(_, _)
\* lines 123-137: the pass over the sorted list
assemble(st, ids) ==
    IF ids = <<>> THEN st ELSE assemble(assemble_one(st, Head(ids)), Tail(ids))

\* lines 103-105: the records of the day files, in reading order
records(files) == Concat([i \in 1..Len(files) |-> files[i].data])

(***************************************************************************)
(* formatter.py                                                            *)
(***************************************************************************)
SecondsPerDay == 24 * 60 * 60

RECURSIVE PadNum(_, _)
\* n written with at least `width` digits, zero padded (strftime's %Y %m %d %I %M)
PadNum(n, width) ==
    IF width <= 1 /\ n < 10 THEN <<CHOOSE c \in Digits : DigitVal(c) = n>>
    ELSE PadNum(n \div 10, width - 1) \o <<CHOOSE c \in Digits : DigitVal(c) = n % 10>>

RECURSIVE LStrip(_, _)
\* s.lstrip(c)
LStrip(s, c) == IF s # <<>> /\ Head(s) = c THEN LStrip(Tail(s), c) ELSE s

\* the digits before the point of a decimal literal, leading zeros dropped
IntDigits(ts) ==
    LET dot == Find(ts, <<".">>, 1)
    IN  LStrip(IF dot = 0 THEN ts ELSE SubSeq(ts, 1, dot - 1), "0")

\* a <= b for two whole numbers written in digits without leading zeros
DecLE(a, b) ==
    \/ Len(a) < Len(b)
    \/ /\ Len(a) = Len(b)
       /\ \/ a = b
          \/ LET k == CHOOSE k \in 1..Len(a) :
                          a[k] # b[k] /\ \A j \in 1..(k - 1) : a[j] = b[j]
             IN  DigitVal(a[k]) < DigitVal(b[k])

\* the last second of datetime.max, 9999-12-31 23:59:59 UTC
LastInstant == <<"2", "5", "3", "4", "0", "2", "3", "0", "0", "7", "9", "9">>

\* the least whole number whose float is 2^63 or more, which no time_t holds
TimeTOverflow ==
    <<"9", "2", "2", "3", "3", "7", "2", "0", "3", "6", "8", "5", "4", "7", "7", "5", "2", "9", "6">>

\* line 12 (and 21) on a string of digits and points, with at most six decimals
\* when it is 2^31 or more: "instant" when datetime.fromtimestamp(float(ts),
\* tz=utc) returns, "no_float" when float raises ValueError, "no_year" when
\* fromtimestamp raises ValueError or OSError (a year after 9999), "overflow"
\* when it raises OverflowError (no time_t for the float)
InstantKind(ts) ==
    IF ~FloatOk(ts) THEN "no_float"
    ELSE IF DecLE(IntDigits(ts), LastInstant) THEN "instant"
    ELSE IF DecLE(TimeTOverflow, IntDigits(ts)) THEN "overflow"
    ELSE "no_year"

\* whether datetime.fromtimestamp(float(ts), tz=utc) returns
TimestampOk(ts) == InstantKind(ts) = "instant"

\* whether lines 11-15 (and 20-24) let an exception out: the handler catches
\* ValueError and OSError, and OverflowError is neither
TimestampRaises(ts) == InstantKind(ts) = "overflow"

RECURSIVE DivModDay(_, _, _)
\* <<days, second of the day>> of the whole seconds written by digits ds
\* (long division by the seconds of a day, from quotient q and remainder r)
DivModDay(ds, q, r) ==
    IF ds = <<>> THEN <<q, r>>
    ELSE LET n == 10 * r + DigitVal(Head(ds))
         IN  DivModDay(Tail(ds), 10 * q + n \div SecondsPerDay, n % SecondsPerDay)

\* the day number (days since 1970-01-01) and the second of the day of ts
EpochDay(ts) == DivModDay(IntDigits(ts), 0, 0)[1]
SecondOfDay(ts) == DivModDay(IntDigits(ts), 0, 0)[2]

\* the whole seconds of the instant
EpochSeconds(ts) == FloatVal(ts)[1]

\* the UTC calendar date <<year, month, day>> of a day number (days since 1970-01-01)
CivilFromDays(days) ==
    LET z   == days + 719468
        era == z \div 146097
        doe == z - era * 146097
        yoe == (doe - doe \div 1460 + doe \div 36524 - doe \div 146096) \div 365
        doy == doe - (365 * yoe + yoe \div 4 - yoe \div 100)
        mp  == (5 * doy + 2) \div 153
        d   == doy - (153 * mp + 2) \div 5 + 1
        m   == IF mp < 10 THEN mp + 3 ELSE mp - 9
        y   == yoe + era * 400 + (IF m <= 2 THEN 1 ELSE 0)
    IN  <<y, m, d>>

\* _format_timestamp
format_timestamp(ts) ==
    IF ~TimestampOk(ts) THEN ts
    ELSE LET sod == SecondOfDay(ts)
             h24 == sod \div 3600
             h12 == IF h24 % 12 = 0 THEN 12 ELSE h24 % 12
             mm  == (sod % 3600) \div 60
         IN  LStrip(PadNum(h12, 2) \o <<":">> \o PadNum(mm, 2) \o <<" ">>
                    \o (IF h24 < 12 THEN <<"A", "M">> ELSE <<"P", "M">>), "0")

\* _format_date
format_date(ts) ==
    IF ~TimestampOk(ts) THEN <<>>
    ELSE LET ymd == CivilFromDays(EpochDay(ts))
         IN  PadNum(ymd[1], 4) \o <<"-">> \o PadNum(ymd[2], 2) \o <<"-">> \o PadNum(ymd[3], 2)

(***************************************************************************)
(* re.sub: the text is scanned from the left; at each position the pattern *)
(* is tried, a match is replaced and the scan goes on after it.  ReEnd is  *)
(* the last position of the match starting at i (0: no match), ReRepl its  *)
(* replacement.                                                            *)
(***************************************************************************)
Letters ==
    {"a", "b", "c", "d", "e", "f", "g", "h", "i", "j", "k", "l", "m", "n", "o", "p",
     "q", "r", "s", "t", "u", "v", "w", "x", "y", "z", "A", "B", "C", "D", "E", "F",
     "G", "H", "I", "J", "K", "L", "M", "N", "O", "P", "Q", "R", "S", "T", "U", "V",
     "W", "X", "Y", "Z"}

\* \w
IsWord(c) == c \in Letters \cup Digits \cup {"_"}

\* the position after the longest run of \w characters starting at j
WordRunEnd(s, j) ==
    CHOOSE k \in j..(Len(s) + 1) :
        /\ \A q \in j..(k - 1) : IsWord(s[q])
        /\ k = Len(s) + 1 \/ ~IsWord(s[k])

\* (?:\|[^>]*)?> tried at position j: the position of the closing ">"
OptLabelEnd(s, j) ==
    IF j > Len(s) THEN 0
    ELSE IF s[j] = ">" THEN j
    ELSE IF s[j] = "|" THEN Find(s, <<">">>, j + 1)
    ELSE 0

\* \|(prefix[^>]+)> tried at position j behind \w+ : the position of the ">"
LabelEnd(s, j, prefix) ==
    IF ~MatchAt(s, <<"|">> \o prefix, j) THEN 0
    ELSE LET k == Find(s, <<">">>, j + 1 + Len(prefix))
         IN  IF k > j + 1 + Len(prefix) THEN k ELSE 0

\* an emphasis pattern with delimiter c; `word`: the delimiter may not touch \w
EmphasisEnd(s, i, c, word) ==
    IF ~(/\ s[i] = c
         /\ i = 1 \/ ~(s[i - 1] = c \/ (word /\ IsWord(s[i - 1])))
         /\ i + 1 <= Len(s) /\ s[i + 1] # c)
    THEN 0
    ELSE LET ends == {e \in (i + 2)..Len(s) :
                        /\ s[e] = c
                        /\ s[e - 1] # c
                        /\ e = Len(s) \/ ~(s[e + 1] = c \/ (word /\ IsWord(s[e + 1])))
                        /\ \A q \in (i + 1)..(e - 1) : s[q] # "\n"}
         IN  IF ends = {} THEN 0 ELSE CHOOSE e \in ends : \A f \in ends : e <= f

s_user == <<"<", "@">>
s_chan == <<"<", "#">>
s_subteam == <<"<", "!", "s", "u", "b", "t", "e", "a", "m", "^">>
s_here == <<"<", "!", "h", "e", "r", "e">>
s_channel == <<"<", "!", "c", "h", "a", "n", "n", "e", "l">>
s_everyone == <<"<", "!", "e", "v", "e", "r", "y", "o", "n", "e">>
s_http == <<"<", "h", "t", "t", "p", ":", "/", "/">>
s_https == <<"<", "h", "t", "t", "p", "s", ":", "/", "/">>

\* the position after the fixed head of a link, 0 when s has none at i
LinkBody(s, i) ==
    IF MatchAt(s, s_http, i) THEN i + Len(s_http)
    ELSE IF MatchAt(s, s_https, i) THEN i + Len(s_https)
    ELSE 0

ReEnd(rule, s, i) ==
    CASE rule = "user" ->
           IF MatchAt(s, s_user, i) /\ WordRunEnd(s, i + 2) > i + 2
           THEN OptLabelEnd(s, WordRunEnd(s, i + 2)) ELSE 0
      [] rule = "chan" ->
           IF MatchAt(s, s_chan, i) /\ WordRunEnd(s, i + 2) > i + 2
           THEN LabelEnd(s, WordRunEnd(s, i + 2), <<>>) ELSE 0
      [] rule = "subteam" ->
           IF MatchAt(s, s_subteam, i) /\ WordRunEnd(s, i + 10) > i + 10
           THEN LabelEnd(s, WordRunEnd(s, i + 10), <<"@">>) ELSE 0
      [] rule = "here" ->
           IF MatchAt(s, s_here, i) THEN OptLabelEnd(s, i + Len(s_here)) ELSE 0
      [] rule = "channel" ->
           IF MatchAt(s, s_channel, i) THEN OptLabelEnd(s, i + Len(s_channel)) ELSE 0
      [] rule = "everyone" ->
           IF MatchAt(s, s_everyone, i) THEN OptLabelEnd(s, i + Len(s_everyone)) ELSE 0
      [] rule = "link" ->
           IF LinkBody(s, i) # 0 /\ Find(s, <<">">>, LinkBody(s, i)) > LinkBody(s, i)
           THEN Find(s, <<">">>, LinkBody(s, i)) ELSE 0
      [] rule = "bold" -> EmphasisEnd(s, i, "*", FALSE)
      [] rule = "italic" -> EmphasisEnd(s, i, "_", TRUE)
      [] rule = "strike" -> EmphasisEnd(s, i, "~", FALSE)

\* replace_user_mention
replace_user_mention(uid, tbl) ==
    <<"*", "*", "@">> \o (IF Has(tbl, uid) THEN label(Get(tbl, uid, <<>>)) ELSE uid)
                      \o <<"*", "*">>

\* replace_link
replace_link(content) ==
    LET bar == Find(content, <<"|">>, 1)
    IN  IF bar # 0
        THEN <<"[">> \o SubSeq(content, bar + 1, Len(content)) \o <<"]", "(">>
                     \o SubSeq(content, 1, bar - 1) \o <<")">>
        ELSE content

\* the replacement of the match s[i..e] of a rule
ReRepl(rule, s, i, e, tbl) ==
    CASE rule = "user" -> replace_user_mention(SubSeq(s, i + 2, WordRunEnd(s, i + 2) - 1), tbl)
      [] rule = "chan" -> <<"#">> \o SubSeq(s, WordRunEnd(s, i + 2) + 1, e - 1)
      [] rule = "subteam" -> SubSeq(s, WordRunEnd(s, i + 10) + 1, e - 1)
      [] rule = "here" -> <<"@", "h", "e", "r", "e">>
      [] rule = "channel" -> <<"@", "c", "h", "a", "n", "n", "e", "l">>
      [] rule = "everyone" -> <<"@", "e", "v", "e", "r", "y", "o", "n", "e">>
      [] rule = "link" -> replace_link(SubSeq(s, i + 1, e - 1))
      [] rule = "bold" -> <<"*", "*">> \o SubSeq(s, i + 1, e - 1) \o <<"*", "*">>
      [] rule = "italic" -> <<"*">> \o SubSeq(s, i + 1, e - 1) \o <<"*">>
      [] rule = "strike" -> <<"~", "~">> \o SubSeq(s, i + 1, e - 1) \o <<"~", "~">>

RECURSIVE ReSubFrom(_, _, _, _)
ReSubFrom(rule, s, i, tbl) ==
    IF i > Len(s) THEN <<>>
    ELSE LET e == ReEnd(rule, s, i)
         IN  IF e # 0 THEN ReRepl(rule, s, i, e, tbl) \o ReSubFrom(rule, s, e + 1, tbl)
             ELSE <<s[i]>> \o ReSubFrom(rule, s, i + 1, tbl)

\* re.sub(pattern of the rule, its replacement, s)
ReSub(rule, s, tbl) == ReSubFrom(rule, s, 1, tbl)

\* the backtick character (the one character the lexer takes in no string)
BT == "backtick"

s_fence == <<BT, BT, BT>>

RECURSIVE code_split(_, _, _, _)
\* _convert_slack_formatting, lines 77-105: the scan that cuts the text into
\* parts; i and buf_start are the 0-based indexes of the code
code_split(text, i, buf_start, parts) ==
    LET n == Len(text)
        before == IF i > buf_start THEN <<Slice(text, buf_start, i)>> ELSE <<>>
    IN  IF i >= n
        THEN IF buf_start < n THEN Append(parts, Slice(text, buf_start, n)) ELSE parts
        ELSE IF MatchAt(text, s_fence, i + 1)
        THEN LET end == Find(text, s_fence, i + 4) - 1
             IN  IF end # -1
                 THEN code_split(text, end + 3, end + 3,
                                 parts \o before \o <<Slice(text, i, end + 3)>>)
                 ELSE code_split(text, n, n, parts \o before \o <<Slice(text, i, n)>>)
        ELSE IF text[i + 1] = BT /\ Find(text, <<BT>>, i + 2) # 0
        THEN LET end == Find(text, <<BT>>, i + 2) - 1
             IN  code_split(text, end + 1, end + 1,
                            parts \o before \o <<Slice(text, i, end + 1)>>)
        ELSE code_split(text, i + 1, buf_start, parts)

\* lines 107-118 without the test of line 109: every part is rewritten
convert_part_rewrites_code(part) ==
    ReSub("strike", ReSub("italic", ReSub("bold", part, {}), {}), {})

\* lines 107-118: a part that starts with a backtick is kept, another is rewritten
convert_part(part) ==
    IF StartsWith(part, <<BT>>) THEN part
    ELSE ReSub("strike", ReSub("italic", ReSub("bold", part, {}), {}), {})

\* _convert_slack_formatting
convert_slack_formatting(text) ==
    LET parts == code_split(text, 0, 0, <<>>)
    IN  Concat([k \in 1..Len(parts) |-> convert_part(parts[k])])

\* convert_mrkdwn, lines 37-58: the mention and link rules, in order
convert_tokens(text, tbl) ==
    ReSub("link",
      ReSub("everyone",
        ReSub("channel",
          ReSub("here",
            ReSub("subteam",
              ReSub("chan",
                ReSub("user", text, tbl), tbl), tbl), tbl), tbl), tbl), tbl)

\* convert_mrkdwn
convert_mrkdwn(text, tbl) == convert_slack_formatting(convert_tokens(text, tbl))

RECURSIVE Split(_, _)
\* s.split(c)
Split(s, c) ==
    LET k == Find(s, <<c>>, 1)
    IN  IF k = 0 THEN <<s>> ELSE <<SubSeq(s, 1, k - 1)>> \o Split(SubSeq(s, k + 1, Len(s)), c)

\* a line of a document: its text, and where it comes from (kind, and the
\* Message object for the lines of a message block)
Line(text, kind, msg, indent) == [text |-> text, kind |-> kind, msg |-> msg, indent |-> indent]

Or(a, b) == IF a # <<>> THEN a ELSE b

s_unknown == <<"u", "n", "k", "n", "o", "w", "n">>
s_thread == <<" ", "[", "t", "h", "r", "e", "a", "d", "]">>
s_Link == <<"L", "i", "n", "k">>
s_File == <<"F", "i", "l", "e">>
s_Attachment == <<"[", "A", "t", "t", "a", "c", "h", "m", "e", "n", "t", ":", " ">>
s_Topic == <<"*", "*", "T", "o", "p", "i", "c", ":", "*", "*", " ">>
s_Purpose == <<"*", "*", "P", "u", "r", "p", "o", "s", "e", ":", "*", "*", " ">>

\* format_message, lines 139-146: the lines of the attachments
attachment_lines(atts, prefix, id, indent) ==
    LET shown == SelectSeq(atts, LAMBDA a : a.from_url # <<>> \/ a.title # <<>> \/ a.fallback # <<>>)
    IN  [k \in 1..Len(shown) |->
            IF shown[k].from_url # <<>>
            THEN Line(prefix \o <<"[">> \o Or(shown[k].title, Or(shown[k].fallback, s_Link))
                        \o <<"]", "(">> \o shown[k].from_url \o <<")">>,
                      "attachment", id, indent)
            ELSE Line(prefix \o s_Attachment \o Or(shown[k].title, shown[k].fallback) \o <<"]">>,
                      "attachment", id, indent)]

\* format_message, lines 148-154: the lines of the files
file_lines(files, prefix, id, indent) ==
    [k \in 1..Len(files) |->
        IF Or(files[k].permalink, files[k].url_private) # <<>>
        THEN Line(prefix \o <<"[">> \o Or(files[k].name, s_File) \o <<"]", "(">>
                    \o Or(files[k].permalink, files[k].url_private) \o <<")">>,
                  "file", id, indent)
        ELSE Line(prefix \o s_Attachment \o Or(files[k].name, s_File) \o <<"]">>,
                  "file", id, indent)]

\* format_message: the lines of the block of Message object `id`
format_message(h, id, tbl, indent) ==
    LET msg    == h[id]
        author == IF Has(tbl, msg.user) THEN label(Get(tbl, msg.user, <<>>))
                  ELSE Or(msg.user, s_unknown)
        text   == convert_mrkdwn(msg.text, tbl)
        prefix == IF indent THEN <<" ", " ">> ELSE <<>>
        body   == IF text # <<>> THEN Split(text, "\n") ELSE <<>>
    IN  <<Line(prefix \o <<"*", "*", "@">> \o author \o <<"*", "*", " ", "(">>
                 \o format_timestamp(msg.ts) \o <<")">>
                 \o (IF indent THEN s_thread ELSE <<>>) \o <<":">>,
               "header", id, indent)>>
        \o [k \in 1..Len(body) |-> Line(prefix \o body[k], "body", id, indent)]
        \o attachment_lines(msg.attachments, prefix, id, indent)
        \o file_lines(msg.files, prefix, id, indent)

SkippedSubtypes ==
    {<<"c", "h", "a", "n", "n", "e", "l", "_", "j", "o", "i", "n">>,
     <<"c", "h", "a", "n", "n", "e", "l", "_", "l", "e", "a", "v", "e">>,
     <<"c", "h", "a", "n", "n", "e", "l", "_", "p", "u", "r", "p", "o", "s", "e">>,
     <<"c", "h", "a", "n", "n", "e", "l", "_", "t", "o", "p", "i", "c">>,
     <<"c", "h", "a", "n", "n", "e", "l", "_", "n", "a", "m", "e">>,
     <<"b", "o", "t", "_", "m", "e", "s", "s", "a", "g", "e">>}

\* format_channel, lines 178-186: whether the message is skipped
skipped(msg) == msg.subtype \in SkippedSubtypes

\* lines 188-196 without the comparison to current_date
date_header_for_each(msg_date, current_date) ==
    IF msg_date # <<>>
    THEN (IF current_date # <<>> THEN <<Line(<<>>, "blank", 0, FALSE)>> ELSE <<>>)
         \o <<Line(<<"-", "-", "-">>, "divider", 0, FALSE),
              Line(<<>>, "blank", 0, FALSE),
              Line(<<"#", "#", " ">> \o msg_date, "heading", 0, FALSE),
              Line(<<>>, "blank", 0, FALSE)>>
    ELSE <<>>

\* format_channel, lines 188-196: the divider and heading before a message
date_header(msg_date, current_date) ==
    IF msg_date # <<>> /\ msg_date # current_date
    THEN (IF current_date # <<>> THEN <<Line(<<>>, "blank", 0, FALSE)>> ELSE <<>>)
         \o <<Line(<<"-", "-", "-">>, "divider", 0, FALSE),
              Line(<<>>, "blank", 0, FALSE),
              Line(<<"#", "#", " ">> \o msg_date, "heading", 0, FALSE),
              Line(<<>>, "blank", 0, FALSE)>>
    ELSE <<>>

\* lines 201-204 with the subtype test of lines 178-186 applied to replies
reply_lines_skips_subtypes(h, id, tbl) ==
    LET shown == SelectSeq(h[id].replies, LAMBDA r : ~skipped(h[r]))
    IN  Concat([k \in 1..Len(shown) |->
                   format_message(h, shown[k], tbl, TRUE)
                   \o <<Line(<<>>, "blank", shown[k], TRUE)>>])

\* format_channel, lines 201-204: the blocks of the replies of a message
reply_lines(h, id, tbl) ==
    Concat([k \in 1..Len(h[id].replies) |->
               format_message(h, h[id].replies[k], tbl, TRUE)
               \o <<Line(<<>>, "blank", h[id].replies[k], TRUE)>>])

RECURSIVE channel_lines(_, _, _, _)
\* format_channel, lines 175-204: the loop over the messages
channel_lines(messages, h, tbl, current_date) ==
    IF messages = <<>> THEN <<>>
    ELSE LET id == Head(messages)
             msg_date == format_date(h[id].ts)
         IN  IF skipped(h[id])
             THEN channel_lines(Tail(messages), h, tbl, current_date)
             ELSE date_header(msg_date, current_date)
                  \o format_message(h, id, tbl, FALSE)
                  \o <<Line(<<>>, "blank", id, FALSE)>>
                  \o reply_lines(h, id, tbl)
                  \o channel_lines(Tail(messages), h, tbl,
                                   IF msg_date # <<>> /\ msg_date # current_date
                                   THEN msg_date ELSE current_date)

\* format_channel: the lines of the document
format_channel(channel, messages, h, tbl) ==
    <<Line(<<"#", " ", "#">> \o channel.name, "title", 0, FALSE), Line(<<>>, "blank", 0, FALSE)>>
    \o (IF channel.topic # <<>> THEN <<Line(s_Topic \o channel.topic, "topic", 0, FALSE)>> ELSE <<>>)
    \o (IF channel.purpose # <<>> THEN <<Line(s_Purpose \o channel.purpose, "purpose", 0, FALSE)>> ELSE <<>>)
    \o (IF channel.topic # <<>> \/ channel.purpose # <<>> THEN <<Line(<<>>, "blank", 0, FALSE)>> ELSE <<>>)
    \o channel_lines(messages, h, tbl, <<>>)

(***************************************************************************)
(* cli.py: main(), with no --channel option (every channel is selected).   *)
(***************************************************************************)
\* the data of the first archive member of a kind, [] when there is none
FirstData(kind) ==
    LET ms == MembersOf(kind) IN IF ms = <<>> THEN <<>> ELSE ms[1].data

\* line 50: users = load_users(zf)
LoadUsers ==
    /\ pc = "start"
    /\ IF load_users_raises(FirstData("users"))
       THEN pc' = "failed" /\ UNCHANGED users
       ELSE pc' = "users_loaded" /\ users' = load_users_fold(FirstData("users"), {})
    /\ UNCHANGED <<zf, all_channels, ci, loadVars, lines, textVars>>

\* lines 51-55: all_channels = load_channels(zf), exit when there is none
LoadChannels ==
    /\ pc = "users_loaded"
    /\ IF load_channels_raises(FirstData("channels"))
       THEN pc' = "failed" /\ UNCHANGED <<all_channels, ci>>
       ELSE /\ all_channels' = load_channels_list(FirstData("channels"))
            /\ pc' = IF all_channels' = <<>> THEN "exit" ELSE "channel"
            /\ ci' = 1
    /\ UNCHANGED <<zf, users, loadVars, lines, textVars>>

\* load_channel_messages, lines 88-102: the day files are matched and sorted
BeginLoad ==
    /\ pc = "channel"
    /\ date_files' = matched_files(all_channels[ci].name)
    /\ ri' = 0
    /\ heap' = <<>>
    /\ all_messages' = <<>>
    /\ top_level' = <<>>
    /\ parents' = {}
    /\ pc' = "reading"
    /\ UNCHANGED <<zf, users, all_channels, ci, lines, textVars>>

\* load_channel_messages, lines 105-117: one record is parsed and backfilled
ReadRecord ==
    /\ pc = "reading"
    /\ ri < Len(records(date_files))
    /\ LET raw == records(date_files)[ri + 1]
       IN  /\ heap' = Append(heap, parse_message(raw))
           /\ all_messages' = Append(all_messages, Len(heap) + 1)
           /\ users' = backfill(users, raw)
    /\ ri' = ri + 1
    /\ UNCHANGED <<zf, pc, all_channels, ci, date_files, top_level, parents, lines, textVars>>

\* load_channel_messages, lines 119-139: the sort and the thread assembly
SortAssemble ==
    /\ pc = "reading"
    /\ ri = Len(records(date_files))
    /\ IF sort_raises(heap, all_messages)
       THEN pc' = "failed" /\ UNCHANGED <<heap, all_messages, top_level, parents>>
       ELSE LET sorted == sorted_messages(heap, all_messages)
                st == assemble([heap |-> heap, top_level |-> <<>>, parents |-> {}], sorted)
            IN  /\ all_messages' = sorted
                /\ heap' = st.heap
                /\ top_level' = st.top_level
                /\ parents' = st.parents
                /\ pc' = "loaded"
    /\ UNCHANGED <<zf, users, all_channels, ci, date_files, ri, lines, textVars>>

\* lines 81-84 and the loop of line 78: the document of the channel
FormatChannel ==
    /\ pc = "loaded"
    /\ lines' = format_channel(all_channels[ci], top_level, heap, users)
    /\ IF ci < Len(all_channels)
       THEN ci' = ci + 1 /\ pc' = "channel"
       ELSE ci' = ci /\ pc' = "done"
    /\ UNCHANGED <<zf, users, all_channels, loadVars, textVars>>

Next ==
    \/ LoadUsers
    \/ LoadChannels
    \/ BeginLoad
    \/ ReadRecord
    \/ SortAssemble
    \/ FormatChannel

(***************************************************************************)
(* Archives.                                                               *)
(***************************************************************************)
\* JSON objects with optional members
Opt(k, V) == {{}} \cup {{<<k, v>>} : v \in V}
Merge(A, B) == {a \cup b : a \in A, b \in B}

U1 == <<"U", "1">>
U2 == <<"U", "2">>
general == <<"g", "e", "n">>
random == <<"r", "n", "d">>

UsersMember(data) == [kind |-> "users", channel |-> <<>>, date |-> 0, data |-> data]
ChannelsMember(data) == [kind |-> "channels", channel |-> <<>>, date |-> 0, data |-> data]
DayMember(channel, date, data) == [kind |-> "day", channel |-> channel, date |-> date, data |-> data]

alice == {<<"id", U1>>, <<"name", <<"a", "l">>>>, <<"profile", {<<"display_name", <<"A", "l">>>>}>>}
chGeneral == {<<"id", <<"C", "1">>>>, <<"name", general>>, <<"topic", {<<"value", <<"t">>>>}>>}
chRandom == {<<"id", <<"C", "2">>>>, <<"name", random>>}

\* timestamps: "" by default, no number, and numbers of which two are equal
TsPool == {<<"x">>, <<"1">>, <<"1", ".", "0">>, <<"2">>}
ThreadTsPool == {<<"1">>, <<"2">>}
ThreadRecs ==
    Merge(Merge({{<<"user", U1>>, <<"text", <<"h", "i">>>>}}, Opt("ts", TsPool)),
          Opt("thread_ts", ThreadTsPool))

\* the state of main() before its first step, and no markup call made
InitRun ==
    /\ pc = "start"
    /\ users = {}
    /\ all_channels = <<>>
    /\ ci = 0
    /\ date_files = <<>>
    /\ ri = 0
    /\ heap = <<>>
    /\ all_messages = <<>>
    /\ top_level = <<>>
    /\ parents = {}
    /\ lines = <<>>
    /\ txt = <<>>
    /\ res = <<>>
    /\ fpc = "idle"

\* Threads: one channel, one day file, every list of at most MaxMsgs records
\* over the timestamps of TsPool and the thread timestamps of ThreadTsPool
Init ==
    /\ \E n \in 0..MaxMsgs : \E data \in [1..n -> ThreadRecs] :
          zf = <<UsersMember(<<alice>>), ChannelsMember(<<chGeneral>>),
                 DayMember(general, 1, data)>>
    /\ InitRun

Spec == Init /\ [][Next]_vars

\* the text of the j-th record of file f: it names where the record was read
Tag(f, j) == <<f, CHOOSE c \in Digits : DigitVal(c) = j>>

OrderRecs ==
    Merge(Opt("ts", {<<"1">>, <<"1", ".", "0">>, <<"2">>}), Opt("thread_ts", {<<"1">>}))

\* Reading order: one channel, two day files listed in either order of their
\* dates, the records dealt to the first and the second file
InitOrder ==
    /\ \E n \in 0..MaxMsgs : \E data \in [1..n -> OrderRecs] :
       \E k \in 0..n : \E da \in {1, 2} :
          zf = <<UsersMember(<<alice>>), ChannelsMember(<<chGeneral>>),
                 DayMember(general, da,
                     [j \in 1..k |-> data[j] \cup {<<"text", Tag("A", j)>>}]),
                 DayMember(general, 3 - da,
                     [j \in 1..(n - k) |-> data[k + j] \cup {<<"text", Tag("B", j)>>}])>>
    /\ InitRun

SpecOrder == InitOrder /\ [][Next]_vars

PassRecs ==
    Merge(Merge({{<<"user", U1>>, <<"text", <<"h", "i">>>>}},
                Opt("ts", {<<"1">>, <<"2">>, <<"3">>})),
          Opt("thread_ts", {<<"1">>, <<"2">>}))

\* The pass: one channel, one day file, every list of at most MaxMsgs records
\* with a ts of "", 1, 2 or 3 and a thread_ts of "", 1 or 2
InitPass ==
    /\ \E n \in 0..MaxMsgs : \E data \in [1..n -> PassRecs] :
          zf = <<UsersMember(<<alice>>), ChannelsMember(<<chGeneral>>),
                 DayMember(general, 1, data)>>
    /\ InitRun

SpecPass == InitPass /\ [][Next]_vars

bot_message == <<"b", "o", "t", "_", "m", "e", "s", "s", "a", "g", "e">>

RenderRecs ==
    Merge(Merge(Merge({{<<"user", U1>>, <<"text", <<"h", "i">>>>}},
                      Opt("ts", {<<"1">>, <<"8", "6", "4", "0", "1">>})),
                Opt("thread_ts", {<<"1">>})),
          Opt("subtype", {bot_message}))

\* Rendering: one channel, one day file, records over two days, with and
\* without a skipped subtype
InitRender ==
    /\ \E n \in 0..MaxMsgs : \E data \in [1..n -> RenderRecs] :
          zf = <<UsersMember(<<alice>>), ChannelsMember(<<chGeneral>>),
                 DayMember(general, 1, data)>>
    /\ InitRun

SpecRender == InitRender /\ [][Next]_vars

P1 == {<<"name", <<"b", "o">>>>}
P2 == {<<"display_name", <<"C", "y">>>>, <<"real_name", <<"C">>>>}

UserRecs ==
    {{<<"user_profile", P1>>}}
    \cup Merge({{<<"user", U1>>}, {<<"user", U2>>}}, Opt("user_profile", {{}, P1, P2}))

\* Backfill: two channels, at most MaxRecs records dealt to them, with and
\* without an author and an inline profile; U1 is in users.json, U2 is not
InitUsers ==
    /\ \E n \in 0..MaxRecs : \E data \in [1..n -> UserRecs] : \E k \in 0..n :
          zf = <<UsersMember(<<alice>>), ChannelsMember(<<chGeneral, chRandom>>),
                 DayMember(general, 1, [j \in 1..k |-> data[j]]),
                 DayMember(random, 1, [j \in 1..(n - k) |-> data[k + j]])>>
    /\ InitRun

SpecUsers == InitUsers /\ [][Next]_vars

\* every JSON object whose members are a subset of the given ones
RECURSIVE SubObjects(_)
SubObjects(members) ==
    IF members = <<>> THEN {{}}
    ELSE Merge({{}, {Head(members)}}, SubObjects(Tail(members)))

UserObjs ==
    SubObjects(<<<<"id", U2>>, <<"name", <<"b", "o">>>>, <<"real_name", <<"B">>>>,
                 <<"profile", {<<"display_name", <<"B", "o">>>>}>>>>)
ChannelObjs ==
    SubObjects(<<<<"id", <<"C", "1">>>>, <<"name", general>>,
                 <<"topic", {<<"value", <<"t">>>>}>>, <<"purpose", {}>>>>)
MessageObjs ==
    SubObjects(<<<<"user", U2>>, <<"text", <<"h", "i">>>>, <<"ts", <<"1">>>>,
                 <<"thread_ts", <<"1">>>>, <<"subtype", <<"m", "e">>>>,
                 <<"attachments", <<{<<"title", <<"T">>>>}, {}>>>>,
                 <<"files", <<{<<"name", <<"f">>>>}, {}>>>>,
                 <<"user_profile", P1>>>>)

\* Missing fields: at most MaxMeta user records and channel records, and one
\* message record, each with any subset of the fields the loaders read
InitMeta ==
    /\ \E nu \in 0..MaxMeta : \E us \in [1..nu -> UserObjs] :
       \E nc \in 0..MaxMeta : \E cs \in [1..nc -> ChannelObjs] :
       \E m \in MessageObjs :
          zf = <<UsersMember(us), ChannelsMember(cs), DayMember(general, 1, <<m>>)>>
    /\ InitRun

SpecMeta == InitMeta /\ [][Next]_vars

(***************************************************************************)
(* Direct calls of the markup engine.                                      *)
(***************************************************************************)
\* _convert_slack_formatting(txt)
CallFormatting ==
    /\ fpc = "idle"
    /\ res' = convert_slack_formatting(txt)
    /\ fpc' = "fmt"
    /\ UNCHANGED <<zf, pc, users, all_channels, ci, loadVars, lines, txt>>

\* convert_mrkdwn(txt, users)
CallMrkdwn ==
    /\ fpc = "idle"
    /\ res' = convert_mrkdwn(txt, users)
    /\ fpc' = "mrkdwn"
    /\ UNCHANGED <<zf, pc, users, all_channels, ci, loadVars, lines, txt>>

\* _format_timestamp(txt)
CallFormatTimestamp ==
    /\ fpc = "idle"
    /\ IF TimestampRaises(txt)
       THEN fpc' = "raised" /\ UNCHANGED res
       ELSE fpc' = "time" /\ res' = format_timestamp(txt)
    /\ UNCHANGED <<zf, pc, users, all_channels, ci, loadVars, lines, txt>>

\* _format_date(txt)
CallFormatDate ==
    /\ fpc = "idle"
    /\ IF TimestampRaises(txt)
       THEN fpc' = "raised" /\ UNCHANGED res
       ELSE fpc' = "date" /\ res' = format_date(txt)
    /\ UNCHANGED <<zf, pc, users, all_channels, ci, loadVars, lines, txt>>

\* the user table of load_users on a users.json holding alice
KnownUsers == load_users_fold(<<alice>>, {})

InitCall ==
    /\ zf = <<>>
    /\ pc = "start"
    /\ users = KnownUsers
    /\ all_channels = <<>>
    /\ ci = 0
    /\ date_files = <<>>
    /\ ri = 0
    /\ heap = <<>>
    /\ all_messages = <<>>
    /\ top_level = <<>>
    /\ parents = {}
    /\ lines = <<>>
    /\ res = <<>>
    /\ fpc = "idle"

FmtPieces == {<<BT>>, s_fence, <<"*">>, <<"_">>, <<"~">>, <<"a">>}

\* Code spans: every text of at most MaxPieces pieces
InitFormatting ==
    /\ \E n \in 0..MaxPieces : \E ps \in [1..n -> FmtPieces] : txt = Concat(ps)
    /\ InitCall

SpecFormatting == InitFormatting /\ [][CallFormatting]_vars

LinkHeads == {<<"h", "t", "t", "p", ":", "/", "/">>, <<"h", "t", "t", "p", "s", ":", "/", "/">>,
              <<"f", "t", "p", ":", "/", "/">>, <<>>}
LinkChars == {"e", "*", "_", "~", "|"}

\* Links: "<" head body ">" for every head and every body of 1..MaxBody
\* characters of LinkChars
InitLinks ==
    /\ \E head \in LinkHeads : \E n \in 1..MaxBody : \E body \in [1..n -> LinkChars] :
          txt = <<"<">> \o head \o body \o <<">">>
    /\ InitCall

SpecLinks == InitLinks /\ [][CallMrkdwn]_vars

\* a user whose label is written with emphasis marks
bob == {<<"id", U2>>, <<"name", <<"b">>>>, <<"profile", {<<"display_name", <<"_", "b", "_">>>>}>>}

TokenHeads ==
    {s_user \o U2 \o <<"|">>, s_chan \o <<"C", "1", "|">>,
     s_subteam \o <<"S", "1", "|", "@">>, s_here \o <<"|">>, s_http}
TokenChars == {"e", "*", "_", "~"}

\* Tokens: one token of each rewrite rule of convert_mrkdwn, with every
\* variable part of 1..MaxBody characters of TokenChars, and a user table
\* holding alice and bob
InitTokens ==
    /\ \E head \in TokenHeads : \E n \in 1..MaxBody : \E body \in [1..n -> TokenChars] :
          txt = head \o body \o <<">">>
    /\ zf = <<>>
    /\ pc = "start"
    /\ users = load_users_fold(<<alice, bob>>, {})
    /\ all_channels = <<>>
    /\ ci = 0
    /\ date_files = <<>>
    /\ ri = 0
    /\ heap = <<>>
    /\ all_messages = <<>>
    /\ top_level = <<>>
    /\ parents = {}
    /\ lines = <<>>
    /\ res = <<>>
    /\ fpc = "idle"

SpecTokens == InitTokens /\ [][CallMrkdwn]_vars

\* whole seconds around the turns of the minute, the hour, noon, the day, a
\* leap day, the year 10000 and 2^63; and strings that are no number
WholeSeconds ==
    {<<>>, <<"0">>, <<"0", "0", "1">>, <<"5", "9">>, <<"6", "0">>,
     <<"3", "5", "9", "9">>, <<"3", "6", "0", "0">>,
     <<"4", "3", "1", "9", "9">>, <<"4", "3", "2", "0", "0">>, <<"4", "6", "8", "0", "0">>,
     <<"8", "6", "3", "9", "9">>, <<"8", "6", "4", "0", "0">>,
     <<"9", "5", "1", "7", "8", "2", "3", "9", "9">>, <<"9", "5", "1", "7", "8", "2", "4", "0", "0">>,
     <<"9", "5", "1", "8", "6", "8", "8", "0", "0">>,
     <<"1", "7", "0", "5", "3", "0", "7", "4", "0", "0">>}
Decimals ==
    {<<>>, <<".">>, <<".", "0">>, <<".", "5">>, <<".", "9", "9", "9", "9", "9", "9">>,
     <<".", "5", ".">>, <<"x">>, <<".", "x">>}
LargeSeconds ==
    {LastInstant,
     <<"2", "5", "3", "4", "0", "2", "3", "0", "0", "8", "0", "0">>,
     <<"0", "0">> \o LastInstant,
     <<"4", "1", "0", "2", "4", "4", "4", "8", "0", "0">>,
     <<"1", "0", "0", "0", "0", "0", "0", "0", "0", "0", "0", "0", "0">>,
     <<"9", "2", "2", "3", "3", "7", "2", "0", "3", "6", "8", "5", "4", "7", "7", "5", "2", "9", "5">>,
     TimeTOverflow, TimeTOverflow \o <<".", "0">>,
     <<"9", "9", "9", "9", "9", "9", "9", "9", "9", "9", "9", "9", "9", "9", "9", "9", "9", "9", "9", "9">>}

\* Timestamps: every whole number of WholeSeconds with every ending of
\* Decimals, and every number of LargeSeconds
InitTimestamps ==
    /\ \/ \E w \in WholeSeconds : \E d \in Decimals : txt = w \o d
       \/ txt \in LargeSeconds
    /\ InitCall

SpecTimestamps == InitTimestamps /\ [][CallFormatTimestamp \/ CallFormatDate]_vars

(***************************************************************************)
(* Properties.                                                             *)
(***************************************************************************)
\* format_channel has returned the document of the channel whose messages
\* are in heap and top_level
Rendered == pc = "done" \/ (pc = "channel" /\ ci > 1)

\* load_channel_messages has returned top_level
Returned == pc = "loaded" \/ Rendered

Ids == 1..Len(heap)

RECURSIVE SumReplies(_)
\* sum(len(m.replies) for m in ids)
SumReplies(ids) ==
    IF ids = <<>> THEN 0 ELSE Len(heap[Head(ids)].replies) + SumReplies(Tail(ids))

\* the places of message id in the returned structure
TopPlaces(id) == {k \in DOMAIN top_level : top_level[k] = id}
ReplyPlaces(id) ==
    {<<k, j>> \in (DOMAIN top_level) \X Ids :
        j \in DOMAIN heap[top_level[k]].replies /\ heap[top_level[k]].replies[j] = id}

\* the position of message id in the sorted list
SortedPos(id) == CHOOSE k \in DOMAIN all_messages : all_messages[k] = id

\* C1: when load_channel_messages returns, the top-level messages and their
\* replies are as many as the records read, and every message read is at
\* exactly one place of the result
C1_CountPreserved ==
    Returned =>
        /\ Len(top_level) + SumReplies(top_level) = Len(records(date_files))
        /\ Len(heap) = Len(records(date_files))
        /\ \A id \in Ids : Cardinality(TopPlaces(id)) + Cardinality(ReplyPlaces(id)) = 1

\* three records: two top-level messages with the same ts and a nested reply
C1_Witness ==
    /\ Returned
    /\ Len(heap) = 3
    /\ \E a, b \in Ids : a # b /\ heap[a].ts = heap[b].ts
                          /\ TopPlaces(a) # {} /\ TopPlaces(b) # {}
    /\ \E id \in Ids : ReplyPlaces(id) # {}

\* C2 as stated: a reply is at exactly one place, and at the top level only if
\* no message of the channel has its thread_ts as ts
C2_OrphanOnlyIfParentAbsent ==
    Returned =>
        \A id \in Ids : is_reply(heap[id]) =>
            /\ Cardinality(TopPlaces(id)) + Cardinality(ReplyPlaces(id)) = 1
            /\ TopPlaces(id) # {} => ~\E p \in Ids : heap[p].ts = heap[id].thread_ts

\* C2 amended: a reply is at exactly one place, and at the top level only if no
\* non-reply message with its thread_ts as ts precedes it in the sorted list
C2_OrphanOnlyIfNoEarlierParent ==
    Returned =>
        \A id \in Ids : is_reply(heap[id]) =>
            /\ Cardinality(TopPlaces(id)) + Cardinality(ReplyPlaces(id)) = 1
            /\ TopPlaces(id) # {} =>
                 ~\E p \in Ids : /\ ~is_reply(heap[p])
                                 /\ heap[p].ts = heap[id].thread_ts
                                 /\ SortedPos(p) < SortedPos(id)

\* a reply at the top level although a message with its thread_ts is present,
\* beside a reply nested under its parent
C2_Witness ==
    /\ Returned
    /\ \E id \in Ids : /\ is_reply(heap[id])
                       /\ TopPlaces(id) # {}
                       /\ \E p \in Ids : heap[p].ts = heap[id].thread_ts
    /\ \E id \in Ids : is_reply(heap[id]) /\ ReplyPlaces(id) # {}

\* C4 as stated: the sort of load_channel_messages never fails
C4_SortNeverFails == ~(pc = "failed" /\ ci >= 1 /\ ri = Len(records(date_files)))

\* the day file and the place in it a message was read from (the text of a
\* record of InitOrder names them)
FileDate(id) == IF heap[id].text[1] = "A" THEN zf[3].date ELSE zf[4].date
FilePlace(id) == DigitVal(heap[id].text[2])
ReadBefore(a, b) ==
    FileDate(a) < FileDate(b) \/ (FileDate(a) = FileDate(b) /\ FilePlace(a) < FilePlace(b))

\* the numeric timestamp of a message, 0 for an empty ts
NumericTs(id) == IF heap[id].ts = <<>> THEN <<0, 0>> ELSE FloatVal(heap[id].ts)

Ascending(ids) ==
    \A a, b \in DOMAIN ids : a < b =>
        /\ FloatLE(NumericTs(ids[a]), NumericTs(ids[b]))
        /\ NumericTs(ids[a]) = NumericTs(ids[b]) => ReadBefore(ids[a], ids[b])

\* C8: the returned list and every replies list are in ascending order of
\* numeric timestamp, equal timestamps in reading order (day files by date,
\* then the order of the records in the file)
C8_Ordered ==
    Returned =>
        /\ Ascending(top_level)
        /\ \A k \in DOMAIN top_level : Ascending(heap[top_level[k]].replies)

\* the later day file is listed first, two top-level messages of different
\* files have the same numeric timestamp, and some message has a reply
C8_Witness ==
    /\ Returned
    /\ zf[3].date > zf[4].date
    /\ \E a, b \in DOMAIN top_level :
          /\ a < b
          /\ NumericTs(top_level[a]) = NumericTs(top_level[b])
          /\ FileDate(top_level[a]) # FileDate(top_level[b])
    /\ \E k \in DOMAIN top_level : Len(heap[top_level[k]].replies) >= 1

(***************************************************************************)
(* The user table.                                                         *)
(***************************************************************************)
\* the records load_channel_messages has read so far in this run: those of
\* the channels already loaded, and the first ri of the channel being loaded
ChannelRecords(j) == records(matched_files(all_channels[j].name))
RecordsRead ==
    LET loaded == CASE pc = "done" -> ci
                    [] pc \in {"channel", "reading", "loaded"} -> ci - 1
                    [] OTHER -> 0
    IN  Concat([j \in 1..loaded |-> ChannelRecords(j)])
        \o (IF pc \in {"reading", "loaded"} THEN SubSeq(ChannelRecords(ci), 1, ri) ELSE <<>>)

\* the places in RecordsRead of the records of author uid that carry a
\* (non-empty) inline profile
FragmentsOf(uid) ==
    {k \in DOMAIN RecordsRead :
        Get(RecordsRead[k], "user", <<>>) = uid /\ Get(RecordsRead[k], "user_profile", {}) # {}}

\* the entry of alice, the one user of users.json in InitUsers
AliceUser == User(U1, <<"a", "l">>, <<"A", "l">>, <<>>)

\* the table holds alice as loaded, and, for another id, the user of the first
\* inline profile read for it, or nothing when none was read
FirstFragmentWins ==
    pc \notin {"start", "failed"} =>
        /\ Get(users, U1, <<>>) = AliceUser
        /\ \A uid \in {U2} :
              IF FragmentsOf(uid) = {} THEN ~Has(users, uid)
              ELSE LET k == CHOOSE k \in FragmentsOf(uid) : \A q \in FragmentsOf(uid) : k <= q
                       f == Get(RecordsRead[k], "user_profile", {})
                   IN  Get(users, uid, <<>>) =
                          User(uid, Get(f, "name", <<>>), Get(f, "display_name", <<>>),
                               Get(f, "real_name", <<>>))
        /\ Keys(users) \subseteq {U1, U2}

\* C3: no step of the run changes or removes an entry of the user table, and
\* the entry of an id is the one of the first inline profile read for it
C3_AppendOnly == [][\A e \in users : e \in users']_vars /\ []FirstFragmentWins

\* both channels are loaded; an inline profile was read for alice, and two
\* different ones for U2, the second in the second channel
C3_Witness ==
    /\ pc = "done"
    /\ FragmentsOf(U1) # {}
    /\ \E a, b \in FragmentsOf(U2) :
          /\ a < b
          /\ Get(RecordsRead[a], "user_profile", {}) # Get(RecordsRead[b], "user_profile", {})
          /\ b > Len(ChannelRecords(1))

\* C5 as stated: no load fails for a record with a missing field
C5_MissingFieldNeverFails == ~(pc = "failed" /\ ci = 0)

(***************************************************************************)
(* The document.                                                           *)
(***************************************************************************)
\* C6 as stated: no line of the document comes from a message, top-level or
\* reply, with a skipped subtype
C6_SkippedNeverRendered ==
    Rendered => \A k \in DOMAIN lines : lines[k].msg # 0 => ~skipped(heap[lines[k].msg])

\* the top-level messages that are rendered, in order
RenderedTop == SelectSeq(top_level, LAMBDA id : ~skipped(heap[id]))

\* the line of the header of message id
HeaderPos(id) == CHOOSE k \in DOMAIN lines : lines[k].kind = "header" /\ lines[k].msg = id

\* the four lines before line k are a divider and the heading of date d
HeadingBefore(k, d) ==
    /\ k >= 5
    /\ lines[k - 4].kind = "divider" /\ lines[k - 4].text = <<"-", "-", "-">>
    /\ lines[k - 3].text = <<>>
    /\ lines[k - 2].kind = "heading" /\ lines[k - 2].text = <<"#", "#", " ">> \o d
    /\ lines[k - 1].text = <<>>

\* the date of the latest rendered top-level message with a date before the
\* j-th one, "" when there is none
CurrentDate(j) ==
    LET dated == {q \in 1..(j - 1) : format_date(heap[RenderedTop[q]].ts) # <<>>}
    IN  IF dated = {} THEN <<>>
        ELSE format_date(heap[RenderedTop[CHOOSE q \in dated : \A r \in dated : r <= q]].ts)

\* the text of the last heading line before line k, "" when there is none
LastHeading(k) ==
    LET hs == {h \in 1..(k - 1) : lines[h].kind = "heading"}
    IN  IF hs = {} THEN <<>> ELSE lines[CHOOSE h \in hs : \A g \in hs : g <= h].text

\* the day number of a message with a date
DayOf(id) == EpochSeconds(heap[id].ts) \div SecondsPerDay

\* a heading is emitted exactly before a rendered top-level message whose date
\* is not empty and differs from the current one
HeadingsWhereDue ==
    /\ \A j \in DOMAIN RenderedTop :
          LET d == format_date(heap[RenderedTop[j]].ts)
              k == HeaderPos(RenderedTop[j])
          IN  IF d # <<>> /\ d # CurrentDate(j)
              THEN HeadingBefore(k, d)
              ELSE ~(k >= 3 /\ lines[k - 2].kind = "heading")
    /\ \A h \in DOMAIN lines : lines[h].kind = "heading" =>
          /\ h + 2 \in DOMAIN lines
          /\ lines[h + 2].kind = "header" /\ ~lines[h + 2].indent

\* one heading for each date, in ascending order of date
HeadingsAscending ==
    \A g, h \in DOMAIN lines :
        (g < h /\ lines[g].kind = "heading" /\ lines[h].kind = "heading") =>
            /\ lines[g].text # lines[h].text
            /\ DayOf(lines[g + 2].msg) < DayOf(lines[h + 2].msg)

\* the header of message id stands under the heading of the date of id
UnderOwnHeading(id) ==
    format_date(heap[id].ts) # <<>> =>
        LastHeading(HeaderPos(id)) = <<"#", "#", " ">> \o format_date(heap[id].ts)

\* the messages with a header line in the document
RenderedMsgs == {lines[k].msg : k \in {q \in DOMAIN lines : lines[q].kind = "header"}}

\* C7 as stated: headings where due, one for each date in ascending order, and
\* every rendered message, reply or not, under the heading of its own date
C7_EveryMessageUnderOwnHeading ==
    Rendered =>
        /\ HeadingsWhereDue
        /\ HeadingsAscending
        /\ \A id \in RenderedMsgs : UnderOwnHeading(id)

\* C7 amended: headings where due, one for each date in ascending order, and
\* every rendered top-level message under the heading of its own date
C7_TopLevelUnderOwnHeading ==
    Rendered =>
        /\ HeadingsWhereDue
        /\ HeadingsAscending
        /\ \A j \in DOMAIN RenderedTop : UnderOwnHeading(RenderedTop[j])

\* two headings, and a rendered top-level message with a date that follows
\* another message under the same heading
C7_Witness ==
    /\ Rendered
    /\ Cardinality({h \in DOMAIN lines : lines[h].kind = "heading"}) = 2
    /\ \E j \in DOMAIN RenderedTop :
          /\ format_date(heap[RenderedTop[j]].ts) # <<>>
          /\ lines[HeaderPos(RenderedTop[j]) - 2].kind # "heading"

(***************************************************************************)
(* The markup engine.                                                      *)
(***************************************************************************)
RECURSIVE CodeSpans(_, _)
\* the code spans <<first, last>> of text t from position i on: a triple
\* backtick to the next triple backtick, or to the end of t when there is
\* none; otherwise a backtick to the next backtick
CodeSpans(t, i) ==
    IF i > Len(t) THEN {}
    ELSE IF MatchAt(t, <<BT, BT, BT>>, i)
    THEN IF Find(t, <<BT, BT, BT>>, i + 3) # 0
         THEN {<<i, Find(t, <<BT, BT, BT>>, i + 3) + 2>>}
              \cup CodeSpans(t, Find(t, <<BT, BT, BT>>, i + 3) + 3)
         ELSE {<<i, Len(t)>>}
    ELSE IF t[i] = BT /\ Find(t, <<BT>>, i + 1) # 0
    THEN {<<i, Find(t, <<BT>>, i + 1)>>} \cup CodeSpans(t, Find(t, <<BT>>, i + 1) + 1)
    ELSE CodeSpans(t, i + 1)

Backticks(t) == Cardinality({k \in DOMAIN t : t[k] = BT})

\* C9: every code span of the text stands unchanged in the result, behind as
\* many backticks as in the text; an unclosed triple backtick span ends it
C9_CodeUnchanged ==
    fpc = "fmt" =>
        \A sp \in CodeSpans(txt, 1) :
            /\ \E p \in DOMAIN res :
                  /\ MatchAt(res, SubSeq(txt, sp[1], sp[2]), p)
                  /\ Backticks(SubSeq(res, 1, p - 1)) = Backticks(SubSeq(txt, 1, sp[1] - 1))
            /\ (MatchAt(txt, <<BT, BT, BT>>, sp[1]) /\ Find(txt, <<BT, BT, BT>>, sp[1] + 3) = 0) =>
                  SubSeq(res, Len(res) - (sp[2] - sp[1]), Len(res)) = SubSeq(txt, sp[1], sp[2])

\* a code span holds *a*, which is rewritten outside code, and an unclosed
\* triple backtick span is possible within the bound
C9_Witness ==
    /\ fpc = "fmt"
    /\ \E sp \in CodeSpans(txt, 1) : Contains(SubSeq(txt, sp[1], sp[2]), <<"*", "a", "*">>)
    /\ convert_slack_formatting(<<"*", "a", "*">>) = <<"*", "*", "a", "*", "*">>

\* C10 as stated: <url> becomes the url, <url|label> becomes [label](url),
\* and a token that does not begin with http:// or https:// stays a token
C10_LinkRewritten ==
    fpc = "mrkdwn" =>
        LET content == SubSeq(txt, 2, Len(txt) - 1)
            bar     == Find(content, <<"|">>, 1)
        IN  IF StartsWith(content, <<"h", "t", "t", "p", ":", "/", "/">>)
               \/ StartsWith(content, <<"h", "t", "t", "p", "s", ":", "/", "/">>)
            THEN IF bar = 0 THEN res = content
                 ELSE res = <<"[">> \o SubSeq(content, bar + 1, Len(content)) \o <<"]", "(">>
                            \o SubSeq(content, 1, bar - 1) \o <<")">>
            ELSE Head(res) = "<" /\ res[Len(res)] = ">"

(***************************************************************************)
(* Timestamps.                                                             *)
(***************************************************************************)
\* C11 as stated: the call never fails; a string that is no instant (no
\* number, or a number out of range) comes back unchanged from
\* _format_timestamp and as "" from _format_date
C11_FormattingNeverFails ==
    /\ fpc # "raised"
    /\ (fpc = "time" /\ ~TimestampOk(txt)) => res = txt
    /\ (fpc = "date" /\ ~TimestampOk(txt)) => res = <<>>

(***************************************************************************)
(* The depth of threads and the single pass.                               *)
(***************************************************************************)
\* the messages held by the replies list of some message
Nested == {id \in Ids : \E p \in Ids : \E j \in DOMAIN heap[p].replies : heap[p].replies[j] = id}

\* C12: when load_channel_messages returns, a message with replies is a
\* non-reply of the top level, and a nested message has no replies: so a reply
\* at the top level has none, whatever names its ts
C12_DepthOne ==
    Returned =>
        /\ \A id \in Ids : heap[id].replies # <<>> =>
              ~is_reply(heap[id]) /\ TopPlaces(id) # {}
        /\ \A id \in Nested : heap[id].replies = <<>>
        /\ \A id \in Ids : (is_reply(heap[id]) /\ TopPlaces(id) # {}) => heap[id].replies = <<>>

\* a reply at the top level, a later message that names its ts as thread_ts,
\* and a thread with a nested reply
C12_Witness ==
    /\ Returned
    /\ \E o, m \in Ids :
          /\ is_reply(heap[o]) /\ TopPlaces(o) # {}
          /\ heap[m].thread_ts = heap[o].ts /\ is_reply(heap[m])
          /\ SortedPos(o) < SortedPos(m)
    /\ Nested # {}

\* message r is in the replies list of message p
InReplies(r, p) == \E j \in DOMAIN heap[p].replies : heap[p].replies[j] = r

\* the numeric timestamp of a is strictly smaller than that of b
Earlier(a, b) == ~FloatLE(NumericTs(b), NumericTs(a))

\* the non-reply messages whose ts is the thread_ts of r
ParentsOf(r) == {p \in Ids : ~is_reply(heap[p]) /\ heap[p].ts = heap[r].thread_ts}

\* C13 as stated: a reply is in the replies list of every non-reply message
\* with its thread_ts as ts and a smaller timestamp, and it is at the top
\* level, outside the replies list, when that message has a larger timestamp
C13_UnderEveryEarlierParent ==
    Returned =>
        \A r \in Ids : is_reply(heap[r]) =>
            \A p \in ParentsOf(r) :
                /\ Earlier(p, r) => InReplies(r, p)
                /\ Earlier(r, p) => (TopPlaces(r) # {} /\ ~InReplies(r, p))

\* C13 amended: of the non-reply messages with its thread_ts as ts and a
\* smaller timestamp, the reply is in the replies list of the last one of the
\* sorted list and of no other; when they have a larger timestamp the reply
\* is at the top level and in no replies list
C13_UnderLastEarlierParent ==
    Returned =>
        \A r \in Ids : is_reply(heap[r]) =>
            \A p \in ParentsOf(r) :
                /\ Earlier(p, r) =>
                      (InReplies(r, p) <=>
                          \A q \in ParentsOf(r) : SortedPos(q) <= SortedPos(p))
                /\ Earlier(r, p) => (TopPlaces(r) # {} /\ ReplyPlaces(r) = {})

\* a message with ts 2, a reply to it with ts 3 in its replies list, and a
\* reply to it with ts 1 at the top level
C13_Witness ==
    /\ Returned
    /\ \E p, r, o \in Ids :
          /\ p \in ParentsOf(r) /\ Earlier(p, r) /\ is_reply(heap[r]) /\ InReplies(r, p)
          /\ p \in ParentsOf(o) /\ Earlier(o, p) /\ is_reply(heap[o]) /\ TopPlaces(o) # {}

(***************************************************************************)
(* The rewrite rules of convert_mrkdwn.                                    *)
(***************************************************************************)
\* the token rules, in the order of lines 37-58
TokenRules == {"user", "chan", "subteam", "here", "channel", "everyone", "link"}

\* C14 as stated: when the text is one token of a rule, the replacement the
\* rule inserts for it stands unchanged in the result of convert_mrkdwn
C14_ReplacementKept ==
    fpc = "mrkdwn" =>
        \A rule \in TokenRules :
            ReEnd(rule, txt, 1) = Len(txt) =>
                Contains(res, ReRepl(rule, txt, 1, Len(txt), users))

\* the place of the last backtick of text t, 0 when it has none
LastBacktick(t) ==
    LET bs == {k \in DOMAIN t : t[k] = BT}
    IN  IF bs = {} THEN 0 ELSE CHOOSE k \in bs : \A j \in bs : j <= k

\* C15 as stated: when the last backtick of the text is outside every code
\* span, so that it opens and nothing closes it, the text from that backtick
\* on is the end of the result, unchanged
C15_UnclosedBacktickVerbatim ==
    fpc = "fmt" =>
        LET b == LastBacktick(txt)
        IN  (b # 0 /\ \A sp \in CodeSpans(txt, 1) : ~(sp[1] <= b /\ b <= sp[2])) =>
                /\ Len(res) >= Len(txt) - b + 1
                /\ SubSeq(res, Len(res) - (Len(txt) - b), Len(res)) = SubSeq(txt, b, Len(txt))

(***************************************************************************)
(* The replies in the document.                                            *)
(***************************************************************************)
\* the lines of the document that come from message id
LinesOf(id) == {k \in DOMAIN lines : lines[k].msg = id}
FirstLine(id) == CHOOSE k \in LinesOf(id) : \A j \in LinesOf(id) : k <= j
LastLine(id) == CHOOSE k \in LinesOf(id) : \A j \in LinesOf(id) : j <= k

\* the lines of reply r are one indented [thread] block that starts at line a
\* and ends with a blank line
ReplyBlockAt(r, a) ==
    /\ LinesOf(r) # {}
    /\ FirstLine(r) = a
    /\ LinesOf(r) = FirstLine(r)..LastLine(r)
    /\ lines[a].kind = "header"
    /\ StartsWith(lines[a].text, <<" ", " ", "*", "*", "@">>)
    /\ LET t == lines[a].text
       IN  Len(t) >= 10 /\ SubSeq(t, Len(t) - 9, Len(t)) = s_thread \o <<":">>
    /\ \A k \in LinesOf(r) :
          lines[k].indent /\ (k < LastLine(r) => StartsWith(lines[k].text, <<" ", " ">>))
    /\ LastLine(r) > a
    /\ lines[LastLine(r)].text = <<>>

\* C16: the replies of a rendered top-level message follow its block as
\* indented [thread] blocks, one after the other in stored order, each ended
\* by a blank line, whatever their subtype; no line comes from a skipped
\* top-level message or from its replies
C16_RepliesFollowParent ==
    Rendered =>
        \A n \in DOMAIN top_level :
            LET id == top_level[n]
                rs == heap[id].replies
            IN  IF skipped(heap[id])
                THEN LinesOf(id) = {} /\ \A j \in DOMAIN rs : LinesOf(rs[j]) = {}
                ELSE /\ LinesOf(id) # {}
                     /\ ~lines[FirstLine(id)].indent
                     /\ \A j \in DOMAIN rs :
                           ReplyBlockAt(rs[j], 1 + LastLine(IF j = 1 THEN id ELSE rs[j - 1]))

\* a rendered message with two replies of which the first has a skipped
\* subtype and the second has not
C16_Witness ==
    /\ Rendered
    /\ \E n \in DOMAIN top_level :
          /\ ~skipped(heap[top_level[n]])
          /\ Len(heap[top_level[n]].replies) = 2
          /\ skipped(heap[heap[top_level[n]].replies[1]])
          /\ ~skipped(heap[heap[top_level[n]].replies[2]])

=============================================================================
